---- MODULE Spec2Model ----
(***************************************************************************)
(* Model of src/whisper_daemon.py: a daemon that loads a Whisper model     *)
(* once, prints READY, and then answers each line of standard input (a     *)
(* path) with one write to standard output (the transcript).               *)
(*                                                                         *)
(* Strings are sequences of one-character strings.  The inference library  *)
(* (faster_whisper) is an opaque collaborator: its constructor returns or  *)
(* raises, transcribe() returns a lazy generator or raises, and each step  *)
(* of the generator yields a segment, stops, or raises.                    *)
(***************************************************************************)
EXTENDS Integers, Sequences, FiniteSets, TLC

VARIABLES
    pc,         \* position of main(): the statement about to execute
    model,      \* the local `model`: 0 = unbound, n = handle of the n-th construction
    ctorCalls,  \* number of WhisperModel(...) constructor invocations
    stdin,      \* lines of standard input not yet read
    nread,      \* number of lines the for-loop has taken from stdin
    line,       \* the local `line` (with its terminator)
    path,       \* the local `path`
    segs,       \* texts of the segments the generator has yielded for this request
    text,       \* the local `text`
    writes,     \* arguments of the sys.stdout.write calls so far, in order
    flushed,    \* number of those writes that a flush has pushed to the caller
    stderr,     \* kinds of the lines printed to sys.stderr, in order
    calls,      \* arguments of the model.transcribe calls so far, in order
    kinds       \* per line read, once decided: "blank", or how its transcription
                \* ended: "ok" (generator exhausted) or "error" (something raised)

vars == <<pc, model, ctorCalls, stdin, nread, line, path, segs, text,
          writes, flushed, stderr, calls, kinds>>

(***************************************************************************)
(* Bounds and input domains.                                               *)
(***************************************************************************)
MaxLines == 2   \* lines on standard input
MaxSegs == 2    \* segments one transcription yields

NL == "\n"
SP == " "
TAB == "\t"

\* Characters str.strip() removes (those of them the model uses).
Whitespace == {SP, TAB, NL}

\* Lines as `for line in sys.stdin` delivers them, terminator included:
\* an empty line, a line of a space and a tab, a path with blanks around it.
InputLines ==
    { <<NL>>, <<SP, TAB, NL>>, <<SP, "p", SP, NL>> }

\* Texts a segment may carry: padded text, whitespace only, and a text
\* with a line break inside it.
SegmentTexts ==
    { <<SP, "a", NL>>, <<SP>>, <<"a", NL, "b">> }

SeqsUpTo(S, n) == UNION { [1..k -> S] : k \in 0..n }

ReadyLine == <<"R", "E", "A", "D", "Y", NL>>

(***************************************************************************)
(* Pure functions of the code.                                             *)
(***************************************************************************)
RECURSIVE LStrip(_)
LStrip(s) ==
    IF s = <<>> THEN <<>>
    ELSE IF Head(s) \in Whitespace THEN LStrip(Tail(s))
    ELSE s

RECURSIVE RStrip(_)
RStrip(s) ==
    IF s = <<>> THEN <<>>
    ELSE IF s[Len(s)] \in Whitespace THEN RStrip(SubSeq(s, 1, Len(s) - 1))
    ELSE s

\* Variant of Strip: only the line terminator is removed (line.rstrip("\n")).
RECURSIVE StripNewline(_)
StripNewline(s) ==
    IF s = <<>> THEN <<>>
    ELSE IF s[Len(s)] = NL THEN StripNewline(SubSeq(s, 1, Len(s) - 1))
    ELSE s

\* str.strip(): leading and trailing whitespace removed, the inside kept.
Strip(s) == RStrip(LStrip(s))

\* Variant of Join: the parts run together, the separator is dropped.
RECURSIVE JoinNoSeparator(_, _)
JoinNoSeparator(sep, parts) ==
    IF parts = <<>> THEN <<>>
    ELSE parts[1] \o JoinNoSeparator(sep, Tail(parts))

\* sep.join(parts): the first part, then sep and a part for each further one.
RECURSIVE Join(_, _)
Join(sep, parts) ==
    IF parts = <<>> THEN <<>>
    ELSE IF Len(parts) = 1 THEN parts[1]
    ELSE parts[1] \o sep \o Join(sep, Tail(parts))

\* " ".join(s.text.strip() for s in segments), over the segments yielded.
Transcript(ss) == Join(<<SP>>, [i \in 1..Len(ss) |-> Strip(ss[i])])

(***************************************************************************)
(* Initial state: main() entered, nothing printed, stdin holds the         *)
(* caller's lines.                                                         *)
(***************************************************************************)
Init ==
    /\ pc = "start"
    /\ model = 0
    /\ ctorCalls = 0
    /\ stdin \in SeqsUpTo(InputLines, MaxLines)
    /\ nread = 0
    /\ line = <<>>
    /\ path = <<>>
    /\ segs = <<>>
    /\ text = <<>>
    /\ writes = <<>>
    /\ flushed = 0
    /\ stderr = <<>>
    /\ calls = <<>>
    /\ kinds = <<>>

(***************************************************************************)
(* Start-up.                                                               *)
(***************************************************************************)
\* Variant of PrintLoading: READY is signalled before the model is constructed.
PrintLoadingSignalsReady ==
    /\ pc = "start"
    /\ stderr' = Append(stderr, "loading")
    /\ writes' = Append(writes, ReadyLine)
    /\ flushed' = Len(writes) + 1
    /\ pc' = "load"
    /\ UNCHANGED <<model, ctorCalls, stdin, nread, line, path, segs, text,
                   calls, kinds>>

\* print("Loading Whisper model ...", file=sys.stderr)
PrintLoading ==
    /\ pc = "start"
    /\ stderr' = Append(stderr, "loading")
    /\ pc' = "load"
    /\ UNCHANGED <<model, ctorCalls, stdin, nread, line, path, segs, text,
                   writes, flushed, calls, kinds>>

\* model = WhisperModel(...) returns; print("Model ready.", file=sys.stderr)
LoadModel ==
    /\ pc = "load"
    /\ ctorCalls' = ctorCalls + 1
    /\ model' = ctorCalls + 1
    /\ stderr' = Append(stderr, "model ready")
    /\ pc' = "signal"
    /\ UNCHANGED <<stdin, nread, line, path, segs, text, writes, flushed,
                   calls, kinds>>

\* Variant of LoadModelFails: the exception is swallowed and main() carries on.
LoadModelFailsCaught ==
    /\ pc = "load"
    /\ ctorCalls' = ctorCalls + 1
    /\ stderr' = Append(stderr, "error")
    /\ pc' = "signal"
    /\ UNCHANGED <<model, stdin, nread, line, path, segs, text, writes,
                   flushed, calls, kinds>>

\* WhisperModel(...) raises: nothing catches it, main() dies with a traceback.
LoadModelFails ==
    /\ pc = "load"
    /\ ctorCalls' = ctorCalls + 1
    /\ stderr' = Append(stderr, "traceback")
    /\ pc' = "crashed"
    /\ UNCHANGED <<model, stdin, nread, line, path, segs, text, writes,
                   flushed, calls, kinds>>

\* sys.stdout.write("READY\n")
WriteReady ==
    /\ pc = "signal"
    /\ writes' = Append(writes, ReadyLine)
    /\ pc' = "flush_ready"
    /\ UNCHANGED <<model, ctorCalls, stdin, nread, line, path, segs, text,
                   flushed, stderr, calls, kinds>>

\* sys.stdout.flush()
FlushReady ==
    /\ pc = "flush_ready"
    /\ flushed' = Len(writes)
    /\ pc' = "read"
    /\ UNCHANGED <<model, ctorCalls, stdin, nread, line, path, segs, text,
                   writes, stderr, calls, kinds>>

(***************************************************************************)
(* The request loop.                                                       *)
(***************************************************************************)
\* Variant of ReadLine: a blank line ends the loop (break instead of continue).
ReadLineBreaksOnBlank ==
    /\ pc = "read"
    /\ stdin # <<>>
    /\ line' = Head(stdin)
    /\ stdin' = Tail(stdin)
    /\ nread' = nread + 1
    /\ path' = Strip(Head(stdin))
    /\ pc' = IF Strip(Head(stdin)) = <<>> THEN "done" ELSE "transcribe"
    /\ kinds' = IF Strip(Head(stdin)) = <<>> THEN Append(kinds, "blank") ELSE kinds
    /\ UNCHANGED <<model, ctorCalls, segs, text, writes, flushed, stderr,
                   calls>>

\* for line in sys.stdin: path = line.strip(); if not path: ...
ReadLine ==
    /\ pc = "read"
    /\ stdin # <<>>
    /\ line' = Head(stdin)
    /\ stdin' = Tail(stdin)
    /\ nread' = nread + 1
    /\ path' = Strip(Head(stdin))
    /\ pc' = IF Strip(Head(stdin)) = <<>> THEN "blank" ELSE "transcribe"
    /\ kinds' = IF Strip(Head(stdin)) = <<>> THEN Append(kinds, "blank") ELSE kinds
    /\ UNCHANGED <<model, ctorCalls, segs, text, writes, flushed, stderr,
                   calls>>

\* the for-loop meets end-of-stream: main() returns
EndOfInput ==
    /\ pc = "read"
    /\ stdin = <<>>
    /\ pc' = "done"
    /\ UNCHANGED <<model, ctorCalls, stdin, nread, line, path, segs, text,
                   writes, flushed, stderr, calls, kinds>>

\* sys.stdout.write("\n") of the blank branch
WriteBlank ==
    /\ pc = "blank"
    /\ writes' = Append(writes, <<NL>>)
    /\ pc' = "flush_blank"
    /\ UNCHANGED <<model, ctorCalls, stdin, nread, line, path, segs, text,
                   flushed, stderr, calls, kinds>>

\* Variant of FlushBlank: the blank branch continues without flushing.
FlushBlankSkipped ==
    /\ pc = "flush_blank"
    /\ pc' = "read"
    /\ UNCHANGED <<model, ctorCalls, stdin, nread, line, path, segs, text,
                   writes, flushed, stderr, calls, kinds>>

\* sys.stdout.flush(); continue
FlushBlank ==
    /\ pc = "flush_blank"
    /\ flushed' = Len(writes)
    /\ pc' = "read"
    /\ UNCHANGED <<model, ctorCalls, stdin, nread, line, path, segs, text,
                   writes, stderr, calls, kinds>>

\* Variant of Transcribe: a fresh model is constructed for the request.
TranscribeReloadsModel ==
    /\ pc = "transcribe"
    /\ ctorCalls' = ctorCalls + 1
    /\ model' = ctorCalls + 1
    /\ calls' = Append(calls, path)
    /\ segs' = <<>>
    /\ pc' = "join"
    /\ UNCHANGED <<stdin, nread, line, path, text, writes, flushed, stderr,
                   kinds>>

\* segments, info = model.transcribe(path, ...) returns its generator
Transcribe ==
    /\ pc = "transcribe"
    /\ calls' = Append(calls, path)
    /\ segs' = <<>>
    /\ pc' = "join"
    /\ UNCHANGED <<model, ctorCalls, stdin, nread, line, path, text, writes,
                   flushed, stderr, kinds>>

\* model.transcribe(path, ...) raises (missing file, decode error)
TranscribeRaises ==
    /\ pc = "transcribe"
    /\ calls' = Append(calls, path)
    /\ segs' = <<>>
    /\ kinds' = Append(kinds, "error")
    /\ pc' = "except"
    /\ UNCHANGED <<model, ctorCalls, stdin, nread, line, path, text, writes,
                   flushed, stderr>>

\* the join pulls one more segment from the generator
NextSegment ==
    /\ pc = "join"
    /\ Len(segs) < MaxSegs
    /\ \E t \in SegmentTexts : segs' = Append(segs, t)
    /\ UNCHANGED <<pc, model, ctorCalls, stdin, nread, line, path, text,
                   writes, flushed, stderr, calls, kinds>>

\* the generator raises while the join is consuming it
SegmentsRaise ==
    /\ pc = "join"
    /\ kinds' = Append(kinds, "error")
    /\ pc' = "except"
    /\ UNCHANGED <<model, ctorCalls, stdin, nread, line, path, segs, text,
                   writes, flushed, stderr, calls>>

\* the generator is exhausted: text = " ".join(...)
SegmentsDone ==
    /\ pc = "join"
    /\ text' = Transcript(segs)
    /\ kinds' = Append(kinds, "ok")
    /\ pc' = "write"
    /\ UNCHANGED <<model, ctorCalls, stdin, nread, line, path, segs, writes,
                   flushed, stderr, calls>>

\* Variant of HandleException: the exception is logged and raised again.
HandleExceptionReraises ==
    /\ pc = "except"
    /\ stderr' = Append(stderr, "error")
    /\ pc' = "crashed"
    /\ UNCHANGED <<model, ctorCalls, stdin, nread, line, path, segs, text,
                   writes, flushed, calls, kinds>>

\* Variant of HandleException: the text of the segments seen so far is kept.
HandleExceptionKeepsPartial ==
    /\ pc = "except"
    /\ stderr' = Append(stderr, "error")
    /\ text' = Transcript(segs)
    /\ pc' = "write"
    /\ UNCHANGED <<model, ctorCalls, stdin, nread, line, path, segs, writes,
                   flushed, calls, kinds>>

\* except Exception as e: print(f"Error: {e}", file=sys.stderr); text = ""
HandleException ==
    /\ pc = "except"
    /\ stderr' = Append(stderr, "error")
    /\ text' = <<>>
    /\ pc' = "write"
    /\ UNCHANGED <<model, ctorCalls, stdin, nread, line, path, segs, writes,
                   flushed, calls, kinds>>

\* sys.stdout.write(text + "\n")
WriteResponse ==
    /\ pc = "write"
    /\ writes' = Append(writes, text \o <<NL>>)
    /\ pc' = "flush"
    /\ UNCHANGED <<model, ctorCalls, stdin, nread, line, path, segs, text,
                   flushed, stderr, calls, kinds>>

\* sys.stdout.flush()
FlushResponse ==
    /\ pc = "flush"
    /\ flushed' = Len(writes)
    /\ pc' = "read"
    /\ UNCHANGED <<model, ctorCalls, stdin, nread, line, path, segs, text,
                   writes, stderr, calls, kinds>>

\* The values the locals and the streams of main() take.
TypeOK ==
    /\ pc \in {"start", "load", "crashed", "signal", "flush_ready", "read", "done",
               "blank", "flush_blank", "transcribe", "join", "except", "write",
               "flush"}
    /\ model \in 0..1
    /\ ctorCalls \in 0..1
    /\ stdin \in SeqsUpTo(InputLines, MaxLines)
    /\ nread \in 0..MaxLines
    /\ line \in InputLines \cup {<<>>}
    /\ path \in Seq({"p"})
    /\ segs \in SeqsUpTo(SegmentTexts, MaxSegs)
    /\ text \in Seq({"a", "b", SP, NL})
    /\ writes \in Seq(Seq({"R", "E", "A", "D", "Y", "a", "b", SP, NL}))
    /\ flushed \in 0..Len(writes)
    /\ stderr \in Seq({"loading", "model ready", "traceback", "error"})
    /\ calls \in Seq(Seq({"p"}))
    /\ kinds \in Seq({"blank", "ok", "error"})

Next ==
    \/ PrintLoading
    \/ LoadModel
    \/ LoadModelFails
    \/ WriteReady
    \/ FlushReady
    \/ ReadLine
    \/ EndOfInput
    \/ WriteBlank
    \/ FlushBlank
    \/ Transcribe
    \/ TranscribeRaises
    \/ NextSegment
    \/ SegmentsRaise
    \/ SegmentsDone
    \/ HandleException
    \/ WriteResponse
    \/ FlushResponse

Spec == Init /\ [][Next]_vars

\* One sequential thread: whenever a statement can run, it eventually does
\* (every library call returns or raises).
FairSpec == Spec /\ WF_vars(Next)

(***************************************************************************)
(* Vocabulary of the properties, defined without the code's operators.     *)
(***************************************************************************)
\* A line is blank when it holds nothing but whitespace.
IsBlank(s) == \A i \in 1..Len(s) : s[i] \in Whitespace

\* s between its first and its last non-whitespace character.
Trimmed(s) ==
    IF IsBlank(s) THEN <<>>
    ELSE LET solid == { i \in 1..Len(s) : s[i] \notin Whitespace }
             lo == CHOOSE i \in solid : \A j \in solid : i <= j
             hi == CHOOSE i \in solid : \A j \in solid : j <= i
         IN  SubSeq(s, lo, hi)

\* trimmed(s1) + " " + ... + " " + trimmed(sn), built from the right.
RECURSIVE SpacedTexts(_)
SpacedTexts(ss) ==
    IF ss = <<>> THEN <<>>
    ELSE IF Len(ss) = 1 THEN Trimmed(ss[1])
    ELSE SpacedTexts(SubSeq(ss, 1, Len(ss) - 1)) \o <<SP>> \o Trimmed(ss[Len(ss)])

RECURSIVE Flatten(_)
Flatten(chunks) ==
    IF chunks = <<>> THEN <<>> ELSE Head(chunks) \o Flatten(Tail(chunks))

\* The lines of a character stream: maximal runs ended by a line break.
RECURSIVE LinesFrom(_, _)
LinesFrom(cs, cur) ==
    IF cs = <<>> THEN (IF cur = <<>> THEN <<>> ELSE <<cur>>)
    ELSE IF Head(cs) = NL THEN <<cur>> \o LinesFrom(Tail(cs), <<>>)
    ELSE LinesFrom(Tail(cs), Append(cur, Head(cs)))

\* What the caller reads on standard output, line by line.
OutputLines == LinesFrom(Flatten(writes), <<>>)

Count(seq, x) == Cardinality({ k \in 1..Len(seq) : seq[k] = x })

Last(seq) == seq[Len(seq)]

\* The k-th line read has its response written.
Answered(k) == Len(writes) >= k + 1

\* The line read last has been decided, and as kind x.
CurrentIs(x) == nread > 0 /\ Len(kinds) = nread /\ kinds[nread] = x

\* main() has stopped, normally or by an uncaught exception.
Terminated == pc \in {"done", "crashed"}

(***************************************************************************)
(* C1: whenever the daemon waits for input or has returned, standard       *)
(* output holds READY and then exactly one line per line read, the k-th    *)
(* being the text written for the k-th line read (empty for a blank line   *)
(* and for a failed transcription).                                        *)
(***************************************************************************)
C1_OneLinePerInput ==
    pc \in {"read", "done"} =>
        /\ Len(OutputLines) = 1 + nread
        /\ \A k \in 1..nread :
              /\ OutputLines[k + 1] \o <<NL>> = writes[k + 1]
              /\ kinds[k] \in {"blank", "error"} => OutputLines[k + 1] = <<>>

(***************************************************************************)
(* C2: READY is written at most once, only once the model is constructed,  *)
(* and it is the first write: no line is read and no response written      *)
(* before READY has been written and flushed.                              *)
(***************************************************************************)
C2_ReadyOnceFirst ==
    /\ Count(writes, ReadyLine) <= 1
    /\ writes # <<>> => (writes[1] = ReadyLine /\ model # 0)
    /\ (nread > 0 \/ pc \in {"read", "done"}) =>
            (writes # <<>> /\ writes[1] = ReadyLine /\ flushed >= 1)

C2_Witness ==
    /\ pc = "done"
    /\ Len(writes) = 3
    /\ kinds = <<"ok", "blank">>

(***************************************************************************)
(* C3: a transcription that raises (in the call or while the segments are  *)
(* consumed) is answered by one diagnostic on the error stream and an      *)
(* empty output line, and the loop goes on: main() stops only at           *)
(* end-of-stream.                                                          *)
(***************************************************************************)
C3_FailureIsAnsweredEmpty ==
    /\ \A k \in 1..Len(kinds) :
          (kinds[k] = "error" /\ Answered(k)) => writes[k + 1] = <<NL>>
    /\ Count(stderr, "error") =
          Count(kinds, "error") - (IF pc = "except" THEN 1 ELSE 0)
    /\ Len(writes) = 1 + Len(kinds) - (IF pc \in {"blank", "except", "write"} THEN 1 ELSE 0)
          \/ pc \in {"start", "load", "signal", "crashed"}
    /\ (model # 0 /\ Terminated) => (pc = "done" /\ stdin = <<>>)

C3_Witness ==
    /\ pc = "join"
    /\ kinds = <<"error">>
    /\ writes = <<ReadyLine, <<NL>>>>
    /\ stderr = <<"loading", "model ready", "error">>

(***************************************************************************)
(* C4: a line that is blank gets an empty output line and no transcribe    *)
(* call; any other line gets one call whose path is the line without its   *)
(* surrounding whitespace.                                                 *)
(***************************************************************************)
C4_BlankLinesSkipTheModel ==
    /\ (nread > 0 /\ IsBlank(line)) =>
          /\ pc \in {"blank", "flush_blank", "read", "done"}
          /\ pc # "blank" => writes[nread + 1] = <<NL>>
    /\ (nread > 0 /\ ~IsBlank(line)) =>
          /\ pc \in {"transcribe", "join", "except", "write", "flush", "read", "done"}
          /\ pc = "transcribe" => path = Trimmed(line)
          /\ pc # "transcribe" => (calls # <<>> /\ Last(calls) = Trimmed(line))
    /\ Len(calls) = nread - Count(kinds, "blank")
                          - (IF pc = "transcribe" THEN 1 ELSE 0)

C4_Witness ==
    /\ pc = "done"
    /\ line = <<SP, TAB, NL>>
    /\ calls = << <<"p">> >>
    /\ nread = 2

(***************************************************************************)
(* C5: a transcription that ends normally with segments s1..sn is answered *)
(* by trimmed(s1) + " " + ... + " " + trimmed(sn) and a line break; with   *)
(* no segments the answer is the empty line.                               *)
(***************************************************************************)
C5_TranscriptIsSpacedTexts ==
    CurrentIs("ok") =>
        /\ pc = "write" => text = SpacedTexts(segs)
        /\ pc = "flush" => Last(writes) = SpacedTexts(segs) \o <<NL>>
        /\ (pc = "flush" /\ segs = <<>>) => Last(writes) = <<NL>>

C5_Witness ==
    /\ pc = "flush"
    /\ CurrentIs("ok")
    /\ segs = << <<SP, "a", NL>>, <<"a", NL, "b">> >>
    /\ Last(writes) = <<"a", SP, "a", NL, "b", NL>>

(***************************************************************************)
(* C6: when the constructor raises, main() stops there: nothing is ever    *)
(* written to standard output and no line is read.                         *)
(***************************************************************************)
C6_LoadFailureIsSilent ==
    (ctorCalls > 0 /\ model = 0) =>
        /\ writes = <<>>
        /\ flushed = 0
        /\ nread = 0
        /\ Terminated
        /\ ~ENABLED Next

C6_Witness ==
    /\ ctorCalls = 1
    /\ model = 0
    /\ Len(stdin) = 2

(***************************************************************************)
(* C7: once the model is loaded the daemon eventually returns, and when it *)
(* has stopped no line is left unread and every line read was answered.    *)
(***************************************************************************)
C7_TerminatesAtEndOfStream ==
    /\ (model # 0) ~> (pc = "done")
    /\ [](( model # 0 /\ Terminated) =>
            /\ stdin = <<>>
            /\ Len(kinds) = nread
            /\ Len(writes) = 1 + nread)

C7_Witness ==
    /\ pc = "done"
    /\ nread = 2
    /\ kinds = <<"error", "ok">>

(***************************************************************************)
(* C8: while the daemon waits for a line, and after the loop, every write  *)
(* has been flushed; at most one write is ever pending.                    *)
(***************************************************************************)
C8_FlushedBeforeReading ==
    /\ pc \in {"read", "done"} => flushed = Len(writes)
    /\ Len(writes) - flushed <= 1
    /\ pc \in {"flush_ready", "flush_blank", "flush"} <=> flushed < Len(writes)

C8_Witness ==
    /\ pc = "read"
    /\ flushed = 3
    /\ kinds = <<"blank", "ok">>

(***************************************************************************)
(* C9: transcribe is called once per non-blank line, also after a failure, *)
(* and a failure after some segments were produced is answered by the      *)
(* empty line, not by the text of those segments.                          *)
(***************************************************************************)
C9_NoRetryNoPartial ==
    /\ Len(calls) = Count(kinds, "ok") + Count(kinds, "error")
                        + (IF pc = "join" THEN 1 ELSE 0)
    /\ CurrentIs("error") =>
          /\ pc \notin {"transcribe", "join"}
          /\ pc = "write" => text = <<>>
          /\ pc \in {"flush", "read", "done"} => Last(writes) = <<NL>>

C9_Witness ==
    /\ pc = "flush"
    /\ CurrentIs("error")
    /\ Len(segs) = 2
    /\ SpacedTexts(segs) # <<>>
    /\ Len(calls) = 1

(***************************************************************************)
(* C10: the constructor runs once, before the loop, and no step of the     *)
(* loop rebinds the model handle.                                          *)
(***************************************************************************)
C10_ModelConstructedOnce ==
    /\ [](ctorCalls <= 1)
    /\ [](pc \notin {"start", "load", "crashed"} => (model = 1 /\ ctorCalls = 1))
    /\ [](nread > 0 => model = 1)
    /\ [][model # 0 => (model' = model /\ ctorCalls' = ctorCalls)]_vars

C10_Witness ==
    /\ pc = "done"
    /\ model = 1
    /\ kinds = <<"error", "blank">>

====
